---- MODULE Spec2Model ----
(***************************************************************************)
(* TradeSense: the account ledger (ChallengeEngine), the risk rules        *)
(* (RiskEngine), the trade endpoints (buy_trade / sell_trade) and the      *)
(* background scheduler, over a store that is read with SELECTs and        *)
(* written with commits.  Every handler works on the rows its own          *)
(* SQLAlchemy session has loaded; a commit writes the columns the handler  *)
(* changed and expires the session's rows, so the next access re-reads.    *)
(* A step of the model is one SELECT or one commit of a handler together   *)
(* with the local computation that follows or precedes it.                 *)
(***************************************************************************)
EXTENDS Integers, Sequences, FiniteSets, TLC

VARIABLES
    accounts,   \* table user_challenges: id -> row
    trades,     \* table trades: sequence of rows, the id is the index
    req,        \* the request workers: position, inputs and session rows
    sched,      \* the scheduler thread: position and session rows
    today,      \* the calendar date, as datetime.utcnow().date() gives it
    local,      \* the calendar date, as date.today() gives it on the host
    clock,      \* datetime.utcnow(), a logical timestamp
    hist,       \* observations of the run, written by no handler's logic
    life        \* the ChallengeScheduler object, its threads and its callers

vars == <<accounts, trades, req, sched, today, local, clock, hist, life>>

----------------------------------------------------------------------------
(* Bounds of the model *)

MaxTrades == 2
MaxDay == 1
\* Status updates an admin sends in a run.
MaxOverrides == 2
\* Thread objects the scheduler creates in a run.
MaxThreads == 2

----------------------------------------------------------------------------
(* Data *)

Users == {"u1"}
AccountIds == {1, 2}
Requests == {"r1", "r2"}
\* Users who own no account and no trade.
Strangers == {"u2"}

\* What the price oracle answers: a price, or nothing (NoPrice).
NoPrice == 0
Prices == {200, 700}
MorePrices == {100, 200, 400, 700}
\* The quantity field of a buy request.
Quantities == {-1, 0, 1, 8}

\* A NULL timestamp column.
Null == 0

\* The default template of the application (all three tiers share these).
StarterTemplate ==
    [initial_balance |-> 5000,
     max_daily_loss_percent |-> 5,
     max_total_drawdown_percent |-> 10,
     profit_target_percent |-> 10,
     is_active |-> TRUE]

\* A template an admin created with a drawdown limit above the whole balance.
WideTemplate ==
    [initial_balance |-> 5000,
     max_daily_loss_percent |-> 5,
     max_total_drawdown_percent |-> 200,
     profit_target_percent |-> 10,
     is_active |-> TRUE]

\* A template an admin created with is_active false.
RetiredTemplate ==
    [initial_balance |-> 5000,
     max_daily_loss_percent |-> 5,
     max_total_drawdown_percent |-> 10,
     profit_target_percent |-> 10,
     is_active |-> FALSE]

\* Table challenges: the id is the index.
Templates == <<StarterTemplate, WideTemplate, RetiredTemplate>>
\* The challenge_id field of a payment request; the last one is no template's id.
TemplateIds == {1, 2, 3, 4}

\* create_user_challenge with the template's percentages stored as the limits.
CreateUserChallengeRawPercent(user, tpl, day) ==
    [user_id |-> user,
     status |-> "active",
     initial_balance |-> tpl.initial_balance,
     current_balance |-> tpl.initial_balance,
     equity |-> tpl.initial_balance,
     peak_balance |-> tpl.initial_balance,
     daily_loss_limit |-> tpl.max_daily_loss_percent,
     max_drawdown_limit |-> tpl.max_total_drawdown_percent,
     profit_target |-> tpl.profit_target_percent,
     completed_at |-> Null,
     current_day |-> day,
     daily_loss |-> 0]

\* ChallengeEngine.create_user_challenge: the row of a new account.
CreateUserChallenge(user, tpl, day) ==
    [user_id |-> user,
     status |-> "active",
     initial_balance |-> tpl.initial_balance,
     current_balance |-> tpl.initial_balance,
     equity |-> tpl.initial_balance,
     peak_balance |-> tpl.initial_balance,
     daily_loss_limit |-> (tpl.initial_balance * tpl.max_daily_loss_percent) \div 100,
     max_drawdown_limit |-> (tpl.initial_balance * tpl.max_total_drawdown_percent) \div 100,
     profit_target |-> (tpl.initial_balance * tpl.profit_target_percent) \div 100,
     completed_at |-> Null,
     current_day |-> day,
     daily_loss |-> 0]

\* A row a session holds when it holds none.
NoAccount ==
    [user_id |-> "", status |-> "", initial_balance |-> 0, current_balance |-> 0,
     equity |-> 0, peak_balance |-> 0, daily_loss_limit |-> 0,
     max_drawdown_limit |-> 0, profit_target |-> 0, completed_at |-> Null,
     current_day |-> 0, daily_loss |-> 0]

NoTrade ==
    [user_id |-> "", user_challenge_id |-> 0, trade_type |-> "", quantity |-> 0,
     entry_price |-> 0, exit_price |-> NoPrice, pnl |-> 0, status |-> "",
     closed_at |-> Null]

Min(a, b) == IF a < b THEN a ELSE b
Max(a, b) == IF a > b THEN a ELSE b
Abs(a) == IF a < 0 THEN -a ELSE a

----------------------------------------------------------------------------
(* RiskEngine.evaluate_challenge *)

\* Evaluate with the capital-preservation rules tried before the profit target.
EvaluateFailuresFirst(uc) ==
    IF uc.daily_loss >= uc.daily_loss_limit
      THEN [status |-> "failed", reason |-> "Daily loss limit exceeded"]
    ELSE IF uc.peak_balance - uc.equity >= uc.max_drawdown_limit
      THEN [status |-> "failed", reason |-> "Maximum drawdown exceeded"]
    ELSE IF uc.equity <= 0
      THEN [status |-> "failed", reason |-> "Account equity depleted"]
    ELSE IF uc.equity - uc.initial_balance >= uc.profit_target
      THEN [status |-> "passed", reason |-> "Profit target achieved"]
    ELSE [status |-> "active", reason |-> "None"]

\* Evaluate with the depleted equity tried before the maximum drawdown.
EvaluateDepletedFirst(uc) ==
    IF uc.equity - uc.initial_balance >= uc.profit_target
      THEN [status |-> "passed", reason |-> "Profit target achieved"]
    ELSE IF uc.daily_loss >= uc.daily_loss_limit
      THEN [status |-> "failed", reason |-> "Daily loss limit exceeded"]
    ELSE IF uc.equity <= 0
      THEN [status |-> "failed", reason |-> "Account equity depleted"]
    ELSE IF uc.peak_balance - uc.equity >= uc.max_drawdown_limit
      THEN [status |-> "failed", reason |-> "Maximum drawdown exceeded"]
    ELSE [status |-> "active", reason |-> "None"]

Evaluate(uc) ==
    IF uc.equity - uc.initial_balance >= uc.profit_target
      THEN [status |-> "passed", reason |-> "Profit target achieved"]
    ELSE IF uc.daily_loss >= uc.daily_loss_limit
      THEN [status |-> "failed", reason |-> "Daily loss limit exceeded"]
    ELSE IF uc.peak_balance - uc.equity >= uc.max_drawdown_limit
      THEN [status |-> "failed", reason |-> "Maximum drawdown exceeded"]
    ELSE IF uc.equity <= 0
      THEN [status |-> "failed", reason |-> "Account equity depleted"]
    ELSE [status |-> "active", reason |-> "None"]

----------------------------------------------------------------------------
(* ChallengeEngine, on the row a session holds *)

\* update_equity without the assignment of current_balance (line 56).
SetEquityOnly(uc, new_equity, day) ==
    LET old_equity == uc.equity
        a == [uc EXCEPT !.equity = new_equity]
        b == IF new_equity > a.peak_balance
               THEN [a EXCEPT !.peak_balance = new_equity] ELSE a
        c == IF b.current_day # day
               THEN [b EXCEPT !.current_day = day, !.daily_loss = 0] ELSE b
    IN  IF new_equity < old_equity
          THEN [c EXCEPT !.daily_loss = Abs(Min(0, new_equity - old_equity))]
          ELSE c

\* update_equity with the loss of the change computed first and the day rolled
\* after it.
SetEquityLossFirst(uc, new_equity, day) ==
    LET old_equity == uc.equity
        a == [uc EXCEPT !.equity = new_equity, !.current_balance = new_equity]
        b == IF new_equity > a.peak_balance
               THEN [a EXCEPT !.peak_balance = new_equity] ELSE a
        c == IF new_equity < old_equity
               THEN [b EXCEPT !.daily_loss = Abs(Min(0, new_equity - old_equity))]
               ELSE b
    IN  IF c.current_day # day
          THEN [c EXCEPT !.current_day = day, !.daily_loss = 0] ELSE c

\* update_equity, lines 54-73: the row after the assignments, before the commit.
SetEquity(uc, new_equity, day) ==
    LET old_equity == uc.equity
        a == [uc EXCEPT !.equity = new_equity, !.current_balance = new_equity]
        b == IF new_equity > a.peak_balance
               THEN [a EXCEPT !.peak_balance = new_equity] ELSE a
        c == IF b.current_day # day
               THEN [b EXCEPT !.current_day = day, !.daily_loss = 0] ELSE b
    IN  IF new_equity < old_equity
          THEN [c EXCEPT !.daily_loss = Abs(Min(0, new_equity - old_equity))]
          ELSE c

\* update_challenge_status, lines 40-42.
SetStatus(uc, status, now) ==
    LET a == [uc EXCEPT !.status = status]
    IN  IF status \in {"passed", "failed"}
          THEN [a EXCEPT !.completed_at = now] ELSE a

\* db.session.commit() of a changed row: the UPDATE sets the columns whose value
\* differs from the value the session loaded, and leaves the others as stored.
Flush(stored, loaded, changed) ==
    [f \in DOMAIN stored |-> IF changed[f] # loaded[f] THEN changed[f] ELSE stored[f]]

----------------------------------------------------------------------------
(* The state after construction *)

\* The evaluation a handler holds before it has evaluated anything.
NoEvaluation == [status |-> "", reason |-> ""]

IdleRequest ==
    [pc |-> "idle", user |-> "", qty |-> 0, price |-> NoPrice, tid |-> 0,
     ucid |-> 0, uc |-> NoAccount, tr |-> NoTrade, evaluation |-> NoEvaluation,
     status |-> "", resp |-> ""]

\* The scheduler between two ticks.  In a tick it holds the day of the rollover, the
\* rows of its session, the accounts still to be evaluated, the evaluation of the
\* account in hand, the accounts the sweep selected and those it has evaluated, and
\* what it has printed: whether the market data refresh failed and the accounts
\* whose evaluation or transition raised.
IdleScheduler ==
    [pc |-> "sleep", day |-> 0, rows |-> [a \in AccountIds |-> NoAccount],
     queue |-> <<>>, evaluation |-> NoEvaluation, selected |-> {}, evaluated |-> {},
     errors |-> {}, refresh_error |-> FALSE]

\* A thread outside start() and stop(): the call it is in, the thread it waits for
\* in join(), and how its last call ended.
IdleCaller == [pc |-> "idle", target |-> 0, resp |-> ""]

Callers == {"c1", "c2"}
ThreadIds == 1..MaxThreads

\* The scheduler after create_app has called start(): running is set, the first
\* thread is the one the object holds and has been started, no thread has left
\* _run, and no loop is in the body of its while statement (body is the thread
\* whose tick is in progress, 0 when every loop is at its test or asleep).
Started ==
    [running |-> TRUE, thread |-> 1, created |-> 1, started |-> {1}, exited |-> {},
     body |-> 0, call |-> [c \in Callers |-> IdleCaller]]

\* The threads inside _run.
Alive == life.started \ life.exited

\* The store with account 1 only.
OnlyFirst(uc) == [a \in AccountIds |-> IF a = 1 THEN uc ELSE NoAccount]

\* The observation of an account whose last trade operations were not an open, or
\* an open and the close of its trade.
NoOpen ==
    [by |-> "", tid |-> 0, closed |-> FALSE, equity |-> 0, daily_loss |-> 0,
     current_day |-> 0, day |-> 0]

\* What an observer of the store has seen of each account: the equity it would
\* have if every committed change had been added to it (applied), the losses of the
\* current day (lossSum), the highest equity stored so far (maxEquity), how many
\* closes of each trade were committed (closes), and, while the last trade
\* operations committed on the account are an open, or an open and the close of its
\* trade, the trade, the stored equity, daily loss and current day the open
\* found, and the day of the open
\* (lastOpen), the workers whose last close came to an equity that meets the
\* profit target (metTarget), for each trade handler between its update_equity
\* and its answer, the evaluation of the account row that update_equity stored
\* (verdict), and how many status updates the admin has sent (overrides).
InitHist ==
    [applied |-> [a \in AccountIds |-> accounts[a].equity],
     lossSum |-> [a \in AccountIds |-> 0],
     maxEquity |-> [a \in AccountIds |-> accounts[a].equity],
     closes |-> <<>>,
     lastOpen |-> [a \in AccountIds |-> NoOpen],
     metTarget |-> {},
     verdict |-> [p \in Requests |-> ""],
     overrides |-> 0]

Init ==
    /\ today = 0
    /\ local = today
    /\ clock = 1
    /\ accounts = OnlyFirst(CreateUserChallenge("u1", StarterTemplate, 0))
    /\ trades = <<>>
    /\ req = [p \in Requests |-> IdleRequest]
    /\ sched = IdleScheduler
    /\ life = Started
    /\ hist = InitHist

\* The observations after account a's stored row changed from old to new, where
\* delta is the change of equity the writer meant to apply.
Observe(h, a, old, new, delta) ==
    [h EXCEPT
       !.applied[a] = @ + delta,
       !.maxEquity[a] = Max(@, new.equity),
       !.lossSum[a] = (IF new.current_day # old.current_day THEN 0 ELSE @)
                      + (IF new.equity < old.equity THEN old.equity - new.equity ELSE 0)]

\* The handler returns: the worker is free again and keeps the response.
Respond(p, msg) == req' = [req EXCEPT ![p] = [IdleRequest EXCEPT !.resp = msg]]

SetToSeq(S) ==
    LET RECURSIVE F(_)
        F(T) == IF T = {} THEN <<>>
                ELSE LET m == CHOOSE x \in T : \A y \in T : x <= y
                     IN  <<m>> \o F(T \ {m})
    IN  F(S)

----------------------------------------------------------------------------
(* buy_trade *)

\* Buy requests that were accepted and have not yet stored their trade.
BuysInFlight == Cardinality({p \in Requests : req[p].pc \in {"buy_update", "buy_insert"}})

\* Unfunded with the unit price compared, the quantity forgotten.
UnfundedUnitPrice(uc, qty, price) == price > uc.equity

\* Lines 54-58: the total cost exceeds the equity of the account.
Unfunded(uc, qty, price) == price * qty > uc.equity

\* Lines 22-59: the request is read, the user's active account is selected, the
\* oracle is asked for the price and the cost is compared with the equity loaded.
BuyStart(p, user, qty, price) ==
    /\ req[p].pc = "idle"
    /\ LET active == {a \in AccountIds :
                        accounts[a].user_id = user /\ accounts[a].status = "active"}
       IN  IF qty = 0
             THEN Respond(p, "Symbol and quantity are required")
           ELSE IF active = {}
             THEN Respond(p, "No active challenge found")
           ELSE \E a \in active :
                  IF price = NoPrice
                    THEN Respond(p, "Could not fetch price")
                  ELSE IF Unfunded(accounts[a], qty, price)
                    THEN Respond(p, "Insufficient balance")
                  ELSE /\ BuysInFlight + Len(trades) < MaxTrades
                       /\ req' = [req EXCEPT ![p] =
                                    [IdleRequest EXCEPT !.pc = "buy_update", !.user = user,
                                        !.qty = qty, !.price = price, !.ucid = a,
                                        !.uc = accounts[a]]]
    /\ UNCHANGED <<accounts, trades, sched, today, local, clock, hist, life>>

\* Lines 76-77: update_equity(id, equity - total_cost) and its commit.
BuyUpdateEquity(p) ==
    /\ req[p].pc = "buy_update"
    /\ LET r == req[p]
           new_equity == r.uc.equity - r.price * r.qty
           stored == Flush(accounts[r.ucid], r.uc, SetEquity(r.uc, new_equity, today))
       IN  /\ accounts' = [accounts EXCEPT ![r.ucid] = stored]
           /\ hist' = [Observe(hist, r.ucid, accounts[r.ucid], stored,
                               new_equity - r.uc.equity)
                         EXCEPT !.lastOpen[r.ucid] =
                                  [by |-> p, tid |-> 0, closed |-> FALSE,
                                   equity |-> accounts[r.ucid].equity,
                                   daily_loss |-> accounts[r.ucid].daily_loss,
                                   current_day |-> accounts[r.ucid].current_day,
                                   day |-> today],
                                !.verdict[p] = Evaluate(stored).status]
           /\ req' = [req EXCEPT ![p].pc = "buy_insert", ![p].uc = NoAccount]
    /\ UNCHANGED <<trades, sched, today, local, clock, life>>

\* Lines 62-80: the trade row is added and committed.
BuyInsertTrade(p) ==
    /\ req[p].pc = "buy_insert"
    /\ LET r == req[p]
       IN  trades' = Append(trades,
                        [user_id |-> r.user, user_challenge_id |-> r.ucid,
                         trade_type |-> "buy", quantity |-> r.qty, entry_price |-> r.price,
                         exit_price |-> NoPrice, pnl |-> 0, status |-> "open",
                         closed_at |-> Null])
    /\ hist' = [hist EXCEPT
                  !.closes = Append(@, 0),
                  !.lastOpen[req[p].ucid] =
                      IF @.by = p THEN [@ EXCEPT !.by = "", !.tid = Len(trades) + 1] ELSE @]
    /\ req' = [req EXCEPT ![p].pc = "buy_eval"]
    /\ UNCHANGED <<accounts, sched, today, local, clock, life>>

\* Lines 83-86: the expired account row is re-read and evaluated.
BuyEvaluate(p) ==
    /\ req[p].pc = "buy_eval"
    /\ LET uc == accounts[req[p].ucid]
       IN  IF Evaluate(uc).status # "active"
             THEN req' = [req EXCEPT ![p].pc = "buy_transition", ![p].uc = uc,
                                     ![p].evaluation = Evaluate(uc)]
             ELSE Respond(p, "Trade executed successfully")
    /\ hist' = [hist EXCEPT !.verdict[p] =
                  IF req'[p].pc = "idle" THEN "" ELSE @]
    /\ UNCHANGED <<accounts, trades, sched, today, local, clock, life>>

\* Lines 87-97: update_challenge_status(id, evaluation status) and its commit.
BuyTransition(p) ==
    /\ req[p].pc = "buy_transition"
    /\ LET r == req[p]
           stored == Flush(accounts[r.ucid], r.uc,
                           SetStatus(r.uc, r.evaluation.status, clock))
       IN  accounts' = [accounts EXCEPT ![r.ucid] = stored]
    /\ clock' = clock + 1
    /\ Respond(p, "Trade executed successfully")
    /\ hist' = [hist EXCEPT !.verdict[p] = ""]
    /\ UNCHANGED <<trades, sched, today, local, life>>

----------------------------------------------------------------------------
(* process_cmi_payment / process_crypto_payment *)

\* The payment is stored (the payments table is outside the state of the model) and
\* create_user_challenge adds the account under the next id.
ProcessPayment(p, user, cid) ==
    /\ req[p].pc = "idle"
    /\ IF cid \notin DOMAIN Templates
         THEN /\ Respond(p, "Challenge not found")
              /\ UNCHANGED <<accounts, hist>>
         ELSE LET free == {a \in AccountIds : accounts[a] = NoAccount}
                  a == CHOOSE x \in free : \A y \in free : x <= y
                  uc == CreateUserChallenge(user, Templates[cid], today)
              IN  /\ free # {}
                  /\ accounts' = [accounts EXCEPT ![a] = uc]
                  /\ hist' = [hist EXCEPT !.applied[a] = uc.equity,
                                          !.maxEquity[a] = uc.equity,
                                          !.lossSum[a] = 0]
                  /\ Respond(p, "Payment processed successfully")
    /\ UNCHANGED <<trades, sched, today, local, clock, life>>

----------------------------------------------------------------------------
(* sell_trade *)

\* Lines 107-126: the trade row is read and checked.
SellStart(p, user, tid) ==
    /\ req[p].pc = "idle"
    /\ IF tid \notin 1..Len(trades)
         THEN Respond(p, "Trade not found")
       ELSE IF trades[tid].user_id # user
         THEN Respond(p, "Access denied")
       ELSE IF trades[tid].status # "open"
         THEN Respond(p, "Trade is already closed")
       ELSE IF trades[tid].trade_type # "buy"
         THEN Respond(p, "Only buy trades can be sold")
       ELSE req' = [req EXCEPT ![p] =
                      [IdleRequest EXCEPT !.pc = "sell_read", !.user = user, !.tid = tid,
                          !.tr = trades[tid], !.ucid = trades[tid].user_challenge_id]]
    /\ UNCHANGED <<accounts, trades, sched, today, local, clock, hist, life>>

\* Lines 129-139: the account row is read and checked, the oracle is asked.
SellReadChallenge(p, price) ==
    /\ req[p].pc = "sell_read"
    /\ LET r == req[p]
       IN  IF r.ucid \notin AccountIds \/ accounts[r.ucid].status # "active"
             THEN Respond(p, "Challenge is not active")
           ELSE IF price = NoPrice
             THEN Respond(p, "Could not fetch price")
           ELSE req' = [req EXCEPT ![p].pc = "sell_update", ![p].price = price,
                                   ![p].uc = accounts[r.ucid]]
    /\ UNCHANGED <<accounts, trades, sched, today, local, clock, hist, life>>

\* Lines 141-153: the trade row after the assignments.
CloseTradeRow(tr, exit_price, now) ==
    [tr EXCEPT !.exit_price = exit_price,
               !.pnl = (exit_price - tr.entry_price) * tr.quantity,
               !.status = "closed",
               !.closed_at = now]

\* Lines 156-158: the equity handed to update_equity.
ReleasedEquity(uc, tr, exit_price) ==
    uc.equity + tr.entry_price * tr.quantity
              + (exit_price - tr.entry_price) * tr.quantity

\* Lines 141-161: the trade is closed, update_equity(id, equity + reserved + pnl),
\* and one commit writes the trade row and the account row.
SellUpdateEquity(p) ==
    /\ req[p].pc = "sell_update"
    /\ LET r == req[p]
           new_equity == ReleasedEquity(r.uc, r.tr, r.price)
           stored == Flush(accounts[r.ucid], r.uc, SetEquity(r.uc, new_equity, today))
       IN  /\ accounts' = [accounts EXCEPT ![r.ucid] = stored]
           /\ trades' = [trades EXCEPT ![r.tid] =
                            Flush(@, r.tr, CloseTradeRow(r.tr, r.price, clock))]
           /\ hist' = [Observe(hist, r.ucid, accounts[r.ucid], stored,
                               new_equity - r.uc.equity)
                         EXCEPT !.closes[r.tid] = @ + 1,
                                !.lastOpen[r.ucid] =
                                    IF @.tid = r.tid /\ ~@.closed
                                      THEN [@ EXCEPT !.closed = TRUE] ELSE NoOpen,
                                !.metTarget =
                                    IF new_equity - r.uc.initial_balance >= r.uc.profit_target
                                      THEN @ \cup {p} ELSE @ \ {p},
                                !.verdict[p] = Evaluate(stored).status]
           /\ req' = [req EXCEPT ![p].pc = "sell_eval", ![p].uc = NoAccount,
                                   ![p].tr = NoTrade]
    /\ UNCHANGED <<sched, today, local, clock, life>>

\* Lines 164-170: the account row is re-read and evaluated.
SellEvaluate(p) ==
    /\ req[p].pc = "sell_eval"
    /\ LET uc == accounts[req[p].ucid]
       IN  IF Evaluate(uc).status # "active"
             THEN req' = [req EXCEPT ![p].pc = "sell_transition", ![p].uc = uc,
                                     ![p].evaluation = Evaluate(uc)]
             ELSE Respond(p, "Trade closed successfully")
    /\ hist' = [hist EXCEPT !.verdict[p] =
                  IF req'[p].pc = "idle" THEN "" ELSE @]
    /\ UNCHANGED <<accounts, trades, sched, today, local, clock, life>>

\* Lines 171-181: update_challenge_status(id, evaluation status) and its commit.
SellTransition(p) ==
    /\ req[p].pc = "sell_transition"
    /\ LET r == req[p]
           stored == Flush(accounts[r.ucid], r.uc,
                           SetStatus(r.uc, r.evaluation.status, clock))
       IN  accounts' = [accounts EXCEPT ![r.ucid] = stored]
    /\ clock' = clock + 1
    /\ Respond(p, "Trade closed successfully")
    /\ hist' = [hist EXCEPT !.verdict[p] = ""]
    /\ UNCHANGED <<trades, sched, today, local, life>>

----------------------------------------------------------------------------
(* admin.update_challenge_status *)

\* The status field of the request body: absent, a status in either case, or a
\* word that is no status.
StatusInputs == {"", "active", "passed", "failed", "PASSED", "closed"}

\* The challenge ids of the URL: those of the store and one that matches no row.
ChallengeIdInputs == AccountIds \cup {3}

\* str.lower() on the inputs.
Lower(str) == IF str = "PASSED" THEN "passed" ELSE str

\* Lines 36-47: the row is read, then the body is validated.
AdminStart(p, cid, status) ==
    /\ req[p].pc = "idle"
    /\ hist.overrides < MaxOverrides
    /\ hist' = [hist EXCEPT !.overrides = @ + 1]
    /\ IF cid \notin AccountIds \/ accounts[cid] = NoAccount
         THEN Respond(p, "Challenge not found")
         ELSE IF status = ""
                THEN Respond(p, "Status is required")
                ELSE IF Lower(status) \notin {"active", "passed", "failed"}
                       THEN Respond(p, "Invalid status")
                       ELSE req' = [req EXCEPT ![p] =
                                      [IdleRequest EXCEPT !.pc = "admin_update",
                                          !.ucid = cid, !.uc = accounts[cid],
                                          !.status = Lower(status)]]
    /\ UNCHANGED <<accounts, trades, sched, today, local, clock, life>>

\* Lines 51-60: ChallengeEngine.update_challenge_status on the row the session
\* holds, its commit, and the answer.
AdminCommit(p) ==
    /\ req[p].pc = "admin_update"
    /\ LET r == req[p]
           stored == Flush(accounts[r.ucid], r.uc, SetStatus(r.uc, r.status, clock))
       IN  accounts' = [accounts EXCEPT ![r.ucid] = stored]
    /\ clock' = clock + 1
    /\ Respond(p, "Challenge status updated")
    /\ UNCHANGED <<trades, sched, today, local, hist, life>>

----------------------------------------------------------------------------
(* ChallengeScheduler._run, one tick of the loop *)

\* date.today() of the scheduler's host.
LocalToday == local

\* Line 54, lines 56-68 and 98-103: a loop at its test finds running set and goes
\* into the body of the while statement, the market data is refreshed (a failure
\* is printed, lines 64-65), then the active accounts of an earlier day are
\* selected.  With none selected the commit of line 109 writes nothing.  The ticks
\* of two loops are taken one after the other.
SelectStale(refresh_failed) ==
    /\ sched.pc = "sleep"
    /\ life.running
    /\ \E t \in Alive : life' = [life EXCEPT !.body = t]
    /\ LET ids == {a \in AccountIds :
                     accounts[a].status = "active" /\ accounts[a].current_day < LocalToday}
           s == [IdleScheduler EXCEPT !.day = LocalToday, !.refresh_error = refresh_failed]
       IN  IF ids = {}
             THEN sched' = [s EXCEPT !.pc = "select"]
             ELSE sched' = [s EXCEPT !.pc = "reset",
                               !.rows = [a \in AccountIds |->
                                           IF a \in ids THEN accounts[a] ELSE NoAccount]]
    /\ UNCHANGED <<accounts, trades, req, today, local, clock, hist>>

SchedSelectStale == SelectStale(FALSE)

\* A scraper raises during the refresh.
SchedRefreshFails == SelectStale(TRUE)

\* Lines 105-107: a selected row after the assignments.
ResetRow(uc, day) == [uc EXCEPT !.current_day = day, !.daily_loss = 0]

\* Lines 105-109: the selected rows are moved to the new day and committed.
SchedResetCommit ==
    /\ sched.pc = "reset"
    /\ accounts' = [a \in AccountIds |->
                      IF sched.rows[a] # NoAccount
                        THEN Flush(accounts[a], sched.rows[a], ResetRow(sched.rows[a], sched.day))
                        ELSE accounts[a]]
    /\ hist' = [hist EXCEPT !.lossSum = [a \in AccountIds |->
                      IF accounts'[a].current_day # accounts[a].current_day
                        THEN 0 ELSE hist.lossSum[a]]]
    /\ sched' = [sched EXCEPT !.pc = "select", !.rows = IdleScheduler.rows]
    /\ UNCHANGED <<trades, req, today, local, clock, life>>

Range(q) == {q[i] : i \in 1..Len(q)}

\* Lines 75-87 on rows the session holds: the accounts at the front of the queue q
\* whose evaluation raises (those of F) or is active are passed over; what is left
\* starts with the first account whose evaluation asks for a transition.
RECURSIVE SkipActive(_, _, _)
SkipActive(q, rows, F) ==
    IF q = <<>> THEN <<>>
    ELSE IF Head(q) \notin F /\ Evaluate(rows[Head(q)]).status # "active" THEN q
    ELSE SkipActive(Tail(q), rows, F)

\* Lines 71-87: at the start of the sweep the active accounts are selected and
\* evaluated in turn on the rows just read, up to the first one to transition.
\* After a commit or a rollback the rows of the session are expired, and the next
\* account of the queue is evaluated on its row as reloaded.  The evaluation of the
\* accounts of F raises: the error is printed and the loop goes on.  With no
\* account left the sweep is over.
SchedEvaluate(F) ==
    /\ sched.pc \in {"select", "loop"}
    /\ LET ids == {a \in AccountIds : accounts[a].status = "active"}
           front == IF sched.pc = "select" THEN SetToSeq(ids) ELSE <<Head(sched.queue)>>
           back == IF sched.pc = "select" THEN <<>> ELSE Tail(sched.queue)
           q == SkipActive(front, accounts, F)
           skipped == Range(front) \ Range(q)
           s == [sched EXCEPT
                   !.selected = IF sched.pc = "select" THEN ids ELSE @,
                   !.evaluated = @ \cup (skipped \ F)
                                   \cup (IF q = <<>> THEN {} ELSE {Head(q)}),
                   !.errors = @ \cup (skipped \cap F)]
       IN  IF q # <<>>
             THEN sched' = [s EXCEPT !.pc = "transition", !.queue = q \o back,
                               !.evaluation = Evaluate(accounts[Head(q)]),
                               !.rows = [a \in AccountIds |->
                                           IF a = Head(q) THEN accounts[a] ELSE NoAccount]]
             ELSE IF back # <<>>
                    THEN sched' = [s EXCEPT !.pc = "loop", !.queue = back]
                    ELSE sched' = [s EXCEPT !.pc = "commit", !.queue = <<>>]
    /\ UNCHANGED <<accounts, trades, req, today, local, clock, hist, life>>

SchedSelectActive == SchedEvaluate({})

\* The evaluation of at least one account raises.
SchedEvaluateFails ==
    \E F \in SUBSET AccountIds :
        /\ SchedEvaluate(F)
        /\ sched'.errors # sched.errors

\* The sweep left after its first transition, as with a break at the end of the
\* body of the loop.
AfterAccountBreak(s) ==
    [s EXCEPT !.pc = "commit",
              !.queue = <<>>,
              !.rows = IdleScheduler.rows,
              !.evaluation = NoEvaluation]

\* Lines 75-87: the scheduler when the body of the loop is over for the account at
\* the head of the queue, at its end or in its except clause.
AfterAccount(s) ==
    [s EXCEPT !.pc = IF Tail(s.queue) = <<>> THEN "commit" ELSE "loop",
              !.queue = Tail(@),
              !.rows = IdleScheduler.rows,
              !.evaluation = NoEvaluation]

\* Lines 81-85: update_challenge_status(id, evaluation status) and its commit, which
\* expires the rows of the session.
SchedTransition ==
    /\ sched.pc = "transition"
    /\ LET a == Head(sched.queue)
           uc == sched.rows[a]
           stored == Flush(accounts[a], uc, SetStatus(uc, sched.evaluation.status, clock))
       IN  accounts' = [accounts EXCEPT ![a] = stored]
    /\ sched' = AfterAccount(sched)
    /\ clock' = clock + 1
    /\ UNCHANGED <<trades, req, today, local, hist, life>>

\* update_challenge_status raises and the exception leaves the body of the loop
\* with no except clause around it: the handler of lines 90-91 prints it and the
\* tick is over.
SchedTransitionFailsUncaught ==
    /\ sched.pc = "transition"
    /\ sched' = IdleScheduler
    /\ life' = [life EXCEPT !.body = 0]
    /\ UNCHANGED <<accounts, trades, req, today, local, clock, hist>>

\* Lines 81-87: update_challenge_status raises (the row is gone, or the commit
\* fails and the session rolls the change back); the error is printed with the id
\* of the account and the loop goes on.
SchedTransitionFails ==
    /\ sched.pc = "transition"
    /\ sched' = AfterAccount([sched EXCEPT !.errors = @ \cup {Head(sched.queue)}])
    /\ UNCHANGED <<accounts, trades, req, today, local, clock, hist, life>>

\* Lines 89-94: the commit after the sweep, which has nothing left to write, and
\* the sleep until the next tick.
SchedCommit ==
    /\ sched.pc = "commit"
    /\ sched' = IdleScheduler
    /\ life' = [life EXCEPT !.body = 0]
    /\ UNCHANGED <<accounts, trades, req, today, local, clock, hist>>

----------------------------------------------------------------------------
(* ChallengeScheduler.start, ChallengeScheduler.stop and the end of _run *)

\* The call of c becomes k.
Call(c, k) == [life EXCEPT !.call[c] = k]

\* The starts that have passed the test of line 21 and have not yet created their
\* thread.
StartsInFlight ==
    Cardinality({c \in Callers : life.call[c].pc \in {"start_set", "start_create"}})

\* Line 21: start() reads running; when it is set the call returns.
StartTest(c) ==
    /\ life.call[c].pc = "idle"
    /\ IF life.running
         THEN life' = Call(c, [IdleCaller EXCEPT !.resp = "running"])
         ELSE /\ life.created + StartsInFlight < MaxThreads
              /\ life' = Call(c, [IdleCaller EXCEPT !.pc = "start_set"])
    /\ UNCHANGED <<accounts, trades, req, sched, today, local, clock, hist>>

\* Line 22.
StartSetRunning(c) ==
    /\ life.call[c].pc = "start_set"
    /\ life' = [Call(c, [IdleCaller EXCEPT !.pc = "start_create"]) EXCEPT
                  !.running = TRUE]
    /\ UNCHANGED <<accounts, trades, req, sched, today, local, clock, hist>>

\* Line 23: a new Thread object replaces the one the scheduler holds.
StartCreateThread(c) ==
    /\ life.call[c].pc = "start_create"
    /\ life' = [Call(c, [IdleCaller EXCEPT !.pc = "start_run"]) EXCEPT
                  !.created = @ + 1, !.thread = life.created + 1]
    /\ UNCHANGED <<accounts, trades, req, sched, today, local, clock, hist>>

\* Line 24: the thread the scheduler holds now is started; Thread.start raises
\* RuntimeError on a thread that has been started before.
StartThread(c) ==
    /\ life.call[c].pc = "start_run"
    /\ IF life.thread \in life.started
         THEN life' = Call(c, [IdleCaller EXCEPT !.resp = "RuntimeError"])
         ELSE life' = [Call(c, [IdleCaller EXCEPT !.resp = "started"]) EXCEPT
                         !.started = @ \cup {life.thread}]
    /\ UNCHANGED <<accounts, trades, req, sched, today, local, clock, hist>>

\* Line 28.
StopClear(c) ==
    /\ life.call[c].pc = "idle"
    /\ life' = [Call(c, [IdleCaller EXCEPT !.pc = "stop_read"]) EXCEPT
                  !.running = FALSE]
    /\ UNCHANGED <<accounts, trades, req, sched, today, local, clock, hist>>

\* Lines 29-30: the thread the scheduler holds now is the one to wait for (after
\* create_app there always is one); Thread.join raises RuntimeError on a thread
\* that has not been started.
StopRead(c) ==
    /\ life.call[c].pc = "stop_read"
    /\ IF life.thread \in life.started
         THEN life' = Call(c, [IdleCaller EXCEPT !.pc = "stop_join",
                                                !.target = life.thread])
         ELSE life' = Call(c, [IdleCaller EXCEPT !.resp = "RuntimeError"])
    /\ UNCHANGED <<accounts, trades, req, sched, today, local, clock, hist>>

\* Line 30: join() returns once the thread has left _run.
StopReturn(c) ==
    /\ life.call[c].pc = "stop_join"
    /\ life.call[c].target \in life.exited
    /\ life' = Call(c, [IdleCaller EXCEPT !.resp = "stopped"])
    /\ UNCHANGED <<accounts, trades, req, sched, today, local, clock, hist>>

\* Line 54: a loop at its test finds running cleared and _run returns.
LoopExit(t) ==
    /\ t \in Alive
    /\ life.body # t
    /\ ~life.running
    /\ life' = [life EXCEPT !.exited = @ \cup {t}]
    /\ UNCHANGED <<accounts, trades, req, sched, today, local, clock, hist>>

----------------------------------------------------------------------------
(* The calendar *)

\* Midnight on a host whose clock is on UTC.
AdvanceDay ==
    /\ today < MaxDay
    /\ local = today
    /\ today' = today + 1
    /\ local' = today + 1
    /\ UNCHANGED <<accounts, trades, req, sched, clock, hist, life>>

\* Midnight on a host whose clock is ahead of UTC: date.today() moves to the next
\* day while datetime.utcnow().date() is still on the day before.
LocalMidnight ==
    /\ local < MaxDay
    /\ local = today
    /\ local' = local + 1
    /\ UNCHANGED <<accounts, trades, req, sched, today, clock, hist, life>>

\* Midnight UTC, some hours after the host's.
UtcMidnight ==
    /\ today < local
    /\ today' = today + 1
    /\ UNCHANGED <<accounts, trades, req, sched, local, clock, hist, life>>

----------------------------------------------------------------------------
(* Specifications *)

\* A request arrives at a free worker of W, with a quantity of Q and a price of P.
RequestStart(W, Q, P) ==
    \E p \in W :
        \/ \E u \in Users, q \in Q, pr \in P \cup {NoPrice} : BuyStart(p, u, q, pr)
        \/ \E u \in Users, t \in 1..MaxTrades : SellStart(p, u, t)

\* A handler takes its next step.
RequestContinue(W, P) ==
    \E p \in W :
        \/ BuyUpdateEquity(p)
        \/ BuyInsertTrade(p)
        \/ BuyEvaluate(p)
        \/ BuyTransition(p)
        \/ \E pr \in P \cup {NoPrice} : SellReadChallenge(p, pr)
        \/ SellUpdateEquity(p)
        \/ SellEvaluate(p)
        \/ SellTransition(p)

\* The evaluation sweep of a tick.
SchedSweep ==
    \/ SchedSelectActive
    \/ SchedTransition
    \/ SchedCommit

\* Nothing is in flight: every worker is free and the scheduler sleeps.
Quiet ==
    /\ \A p \in Requests : req[p].pc = "idle"
    /\ sched.pc = "sleep"

\* Two workers and the scheduler interleave at every SELECT and commit, within one
\* calendar day, with buy requests of quantity 1.
Next ==
    \/ RequestStart(Requests, {1}, Prices)
    \/ RequestContinue(Requests, Prices)
    \/ SchedSelectStale
    \/ SchedSweep

Spec == Init /\ [][Next]_vars

\* One handler or one tick at a time, each run to its end before the next starts,
\* with every quantity, while the calendar advances.
SerialNext ==
    \/ Quiet /\ RequestStart({"r1"}, Quantities, MorePrices)
    \/ Quiet /\ \E u \in Strangers, t \in 1..MaxTrades : SellStart("r1", u, t)
    \/ Quiet /\ SchedSelectStale
    \/ RequestContinue({"r1"}, MorePrices)
    \/ SchedResetCommit
    \/ SchedSelectActive
    \/ SchedCommit
    \/ AdvanceDay

SpecSerial == Init /\ [][SerialNext]_vars

\* The account rows the evaluation is tried on.
EvalTemplates == {StarterTemplate, WideTemplate}
EvalEquities == {0, 4500, 4800, 5000, 5500}
EvalPeaks == {5000, 5500, 6100}
EvalLosses == {0, 249, 250, 700}

InitEval ==
    /\ today \in {0, 1}
    /\ local = today
    /\ clock = 1
    /\ \E tpl \in EvalTemplates, e \in EvalEquities, pk \in EvalPeaks, l \in EvalLosses :
          /\ pk >= e
          /\ accounts = OnlyFirst([CreateUserChallenge("u1", tpl, 0) EXCEPT
                                      !.equity = e, !.current_balance = e,
                                      !.peak_balance = pk, !.daily_loss = l])
    /\ trades = <<>>
    /\ req = [p \in Requests |-> IdleRequest]
    /\ sched = IdleScheduler
    /\ life = Started
    /\ hist = InitHist

EvalNext ==
    \/ SchedSelectStale
    \/ SchedResetCommit
    \/ SchedSweep

\* The scheduler's tick over an account in any of these states.
SpecEval == InitEval /\ [][EvalNext]_vars

\* One worker and the scheduler interleave at every SELECT and commit while the
\* calendar advances.
DaysNext ==
    \/ RequestStart({"r1"}, {1}, Prices)
    \/ RequestContinue({"r1"}, Prices)
    \/ SchedSelectStale
    \/ SchedResetCommit
    \/ SchedSweep
    \/ AdvanceDay

SpecDays == Init /\ [][DaysNext]_vars

\* One worker serves trade requests and another the admin's status updates, while
\* the scheduler ticks, all interleaved at every SELECT and commit within one day.
AdminNext ==
    \/ RequestStart({"r1"}, {1}, Prices)
    \/ RequestContinue({"r1"}, Prices)
    \/ \E cid \in ChallengeIdInputs, st \in StatusInputs : AdminStart("r2", cid, st)
    \/ AdminCommit("r2")
    \/ SchedSelectStale
    \/ SchedSweep

SpecAdmin == Init /\ [][AdminNext]_vars

\* One handler or one tick at a time on a host whose clock is ahead of UTC, with
\* buy requests of quantity 1.
ZonesNext ==
    \/ Quiet /\ RequestStart({"r1"}, {1}, Prices)
    \/ Quiet /\ SchedSelectStale
    \/ RequestContinue({"r1"}, Prices)
    \/ SchedResetCommit
    \/ SchedSelectActive
    \/ SchedCommit
    \/ LocalMidnight
    \/ UtcMidnight

SpecZones == Init /\ [][ZonesNext]_vars

\* No account exists yet.
InitCreate ==
    /\ today = 0
    /\ local = today
    /\ clock = 1
    /\ accounts = [a \in AccountIds |-> NoAccount]
    /\ trades = <<>>
    /\ req = [p \in Requests |-> IdleRequest]
    /\ sched = IdleScheduler
    /\ life = Started
    /\ hist = InitHist

\* A user pays for a challenge; then one handler or one tick at a time, with buy
\* requests of quantity 1, while the calendar advances.
CreateNext ==
    \/ Quiet /\ \E u \in Users, cid \in TemplateIds : ProcessPayment("r1", u, cid)
    \/ Quiet /\ RequestStart({"r1"}, {1}, Prices)
    \/ Quiet /\ SchedSelectStale
    \/ RequestContinue({"r1"}, Prices)
    \/ SchedResetCommit
    \/ SchedSelectActive
    \/ SchedCommit
    \/ AdvanceDay

SpecCreate == InitCreate /\ [][CreateNext]_vars

\* The rows the sweep is tried on under failures, as equity, peak balance and
\* daily loss of a starter account: untouched, after a loss, at the profit target,
\* at the daily loss limit and at the drawdown limit.
FaultRows == {<<5000, 5000, 0>>, <<4800, 5000, 200>>, <<5500, 5500, 0>>,
              <<4750, 5000, 250>>, <<4400, 5000, 200>>}

FaultAccount(r) ==
    [CreateUserChallenge("u1", StarterTemplate, 0) EXCEPT
        !.equity = r[1], !.current_balance = r[1], !.peak_balance = r[2],
        !.daily_loss = r[3]]

InitFaults ==
    /\ today \in {0, 1}
    /\ local = today
    /\ clock = 1
    /\ \E r \in [AccountIds -> FaultRows] :
          accounts = [a \in AccountIds |-> FaultAccount(r[a])]
    /\ trades = <<>>
    /\ req = [p \in Requests |-> IdleRequest]
    /\ sched = IdleScheduler
    /\ life = Started
    /\ hist = InitHist

FaultNext ==
    \/ SchedSelectStale
    \/ SchedRefreshFails
    \/ SchedResetCommit
    \/ SchedSweep
    \/ SchedEvaluateFails
    \/ SchedTransitionFails

\* The scheduler's ticks over two accounts, where the refresh, an evaluation or a
\* transition may raise.  The thread is never held: it takes every step it can.
SpecFaults == InitFaults /\ [][FaultNext]_vars /\ WF_vars(FaultNext)

\* The steps of the scheduler's thread.
SchedNext ==
    \/ SchedSelectStale
    \/ SchedResetCommit
    \/ SchedSweep

\* The rows the running scheduler finds: untouched, at the profit target, and at
\* the daily loss limit, on the day of the rows or on the next.
LiveRows == {<<5000, 5000, 0>>, <<5500, 5500, 0>>, <<4750, 5000, 250>>}

InitLive ==
    /\ today \in {0, 1}
    /\ local = today
    /\ clock = 1
    /\ \E r \in [AccountIds -> LiveRows] :
          accounts = [a \in AccountIds |-> FaultAccount(r[a])]
    /\ trades = <<>>
    /\ req = [p \in Requests |-> IdleRequest]
    /\ sched = IdleScheduler
    /\ life = Started
    /\ hist = InitHist

LiveNext ==
    \/ RequestStart({"r1"}, {1}, Prices)
    \/ RequestContinue({"r1"}, Prices)
    \/ SchedNext

\* One worker and the running scheduler interleave over two accounts.  The thread
\* of the scheduler is never held for ever: while it has a step to take it takes
\* one, and its sleep ends.
SpecLive == InitLive /\ [][LiveNext]_vars /\ WF_vars(SchedNext)

\* A thread goes on in start() or stop().
CallerContinue(c) ==
    \/ StartSetRunning(c)
    \/ StartCreateThread(c)
    \/ StartThread(c)
    \/ StopRead(c)
    \/ StopReturn(c)

LifeNext ==
    \/ \E c \in Callers : StartTest(c)
    \/ \E c \in Callers : StopClear(c)
    \/ \E c \in Callers : CallerContinue(c)
    \/ \E t \in ThreadIds : LoopExit(t)
    \/ SchedNext

\* Two threads call start() and stop() in any order while the loops of the
\* scheduler tick over two accounts.  No thread is held for ever: a caller inside
\* start() or stop() goes on when it can, a loop whose test fails returns, and the
\* sleep of a loop ends.
SpecLifecycle ==
    /\ InitLive /\ [][LifeNext]_vars
    /\ \A c \in Callers : WF_vars(CallerContinue(c))
    /\ WF_vars(\E t \in ThreadIds : LoopExit(t))
    /\ WF_vars(SchedNext)

----------------------------------------------------------------------------
(* Properties *)

Terminal == {"passed", "failed"}

\* C1: once an account is passed or failed, no step of a trade request or of the
\* scheduler changes its status, equity, current balance, peak balance or daily loss.
TerminalAccountFrozen ==
    [][\A a \in AccountIds :
         accounts[a].status \in Terminal =>
            /\ accounts'[a].status = accounts[a].status
            /\ accounts'[a].equity = accounts[a].equity
            /\ accounts'[a].current_balance = accounts[a].current_balance
            /\ accounts'[a].peak_balance = accounts[a].peak_balance
            /\ accounts'[a].daily_loss = accounts[a].daily_loss]_vars

\* C2: no update of an account is lost: the stored equity is the equity at creation
\* plus the change of every committed open and close, whatever their interleaving.
NoLostUpdate ==
    \A a \in AccountIds : accounts[a].equity = hist.applied[a]

\* C3: the daily loss is the sum of the magnitudes of all negative equity changes
\* since the last rollover.
DailyLossAccumulates ==
    \A a \in AccountIds : accounts[a].daily_loss = hist.lossSum[a]

\* C4: completed_at is set exactly once: once it is set, neither it nor the status
\* changes again on the automatic path.
CompletedOnce ==
    [][\A a \in AccountIds :
         accounts[a].completed_at # Null =>
            /\ accounts'[a].completed_at = accounts[a].completed_at
            /\ accounts'[a].status = accounts[a].status]_vars

\* C5: on the automatic path a status never goes back to active, and the only
\* status changes are active -> passed and active -> failed.
OnlyActiveToTerminal ==
    [][\A a \in AccountIds :
         accounts'[a].status # accounts[a].status =>
            /\ accounts[a].status = "active"
            /\ accounts'[a].status \in Terminal]_vars

\* C6: the evaluation is the first matching rule, in the order profit target,
\* daily loss limit, maximum drawdown, equity depleted, and active when none
\* matches: the sweep passes over exactly the accounts no rule matches, and the
\* evaluation it holds for a transition is that of the first rule matching the row.
EvaluationIsFirstMatch ==
    [][(sched.pc = "select" /\ sched' # sched) =>
         LET R1(uc) == uc.equity - uc.initial_balance >= uc.profit_target
             R2(uc) == uc.daily_loss >= uc.daily_loss_limit
             R3(uc) == uc.peak_balance - uc.equity >= uc.max_drawdown_limit
             R4(uc) == uc.equity <= 0
             q == sched'.queue
             queued == {q[i] : i \in 1..Len(q)}
             passedOver == {a \in AccountIds : accounts[a].status = "active"} \ queued
         IN  /\ \A a \in passedOver :
                   LET uc == accounts[a]
                   IN  ~R1(uc) /\ ~R2(uc) /\ ~R3(uc) /\ ~R4(uc)
             /\ q # <<>> =>
                   LET uc == sched'.rows[Head(q)]
                       v == sched'.evaluation
                   IN  /\ R1(uc) \/ R2(uc) \/ R3(uc) \/ R4(uc)
                       /\ R1(uc) =>
                             v = [status |-> "passed", reason |-> "Profit target achieved"]
                       /\ ~R1(uc) /\ R2(uc) =>
                             v = [status |-> "failed", reason |-> "Daily loss limit exceeded"]
                       /\ ~R1(uc) /\ ~R2(uc) /\ R3(uc) =>
                             v = [status |-> "failed", reason |-> "Maximum drawdown exceeded"]
                       /\ ~R1(uc) /\ ~R2(uc) /\ ~R3(uc) /\ R4(uc) =>
                             v = [status |-> "failed", reason |-> "Account equity depleted"]]_vars

\* An account that meets the profit target and has breached the drawdown limit is
\* about to be passed.
ProfitBeatsDrawdown ==
    /\ sched.pc = "transition"
    /\ sched.evaluation.status = "passed"
    /\ LET uc == sched.rows[Head(sched.queue)]
       IN  uc.peak_balance - uc.equity >= uc.max_drawdown_limit

\* C7: the peak balance is the highest equity the account has had since creation.
PeakIsMaxEquity ==
    \A a \in AccountIds : accounts[a].peak_balance = hist.maxEquity[a]

\* C8: a trade is closed at most once: at most one close of it is ever committed.
ClosedAtMostOnce ==
    \A t \in 1..Len(trades) : hist.closes[t] <= 1

\* C9: no trade with a quantity that is zero or negative is ever created.
QuantityIsPositive ==
    \A t \in 1..Len(trades) : trades[t].quantity > 0

\* C10: a buy that the oracle cannot price, or whose cost exceeds the equity of the
\* account, is rejected at once: no trade is created, the account is unchanged and
\* the handler returns the error.
UnfundedBuyRejected ==
    [][\A p \in Requests, u \in Users, q \in Quantities, pr \in MorePrices \cup {NoPrice} :
         LET active == {a \in AccountIds :
                          accounts[a].user_id = u /\ accounts[a].status = "active"}
         IN  ( /\ BuyStart(p, u, q, pr)
               /\ q # 0
               /\ active # {}
               /\ (pr = NoPrice \/ \A a \in active : pr * q > accounts[a].equity) )
             => /\ accounts' = accounts
                /\ trades' = trades
                /\ req'[p].pc = "idle"
                /\ req'[p].resp = IF pr = NoPrice THEN "Could not fetch price"
                                                  ELSE "Insufficient balance"]_vars

\* A buy was rejected for its cost.
UnfundedBuyWasRejected ==
    \E p \in Requests : req[p].resp = "Insufficient balance"

\* C11: a close is rejected, the trade stays open and the account is unchanged,
\* whenever the requester does not own the trade or the owning account is not
\* active; the open trades of a passed or failed account never change.
CloseNeedsActiveOwner ==
    [][/\ \A t \in 1..Len(trades) :
            ( /\ trades[t].status = "open"
              /\ accounts[trades[t].user_challenge_id].status \in Terminal )
            => trades'[t] = trades[t]
       /\ \A p \in Requests :
            ( /\ req[p].pc = "sell_read"
              /\ accounts[req[p].ucid].status # "active"
              /\ req'[p] # req[p] )
            => /\ req'[p].pc = "idle"
               /\ req'[p].resp = "Challenge is not active"
               /\ accounts' = accounts
               /\ trades' = trades
       /\ \A p \in Requests, u \in Users \cup Strangers, t \in 1..Len(trades) :
            (SellStart(p, u, t) /\ trades[t].user_id # u)
            => /\ req'[p].pc = "idle"
               /\ req'[p].resp = "Access denied"
               /\ accounts' = accounts
               /\ trades' = trades]_vars

\* C12: the close of a trade right after its open, at the entry price, is accepted,
\* gives pnl = 0 and leaves equity and current balance as they were before the open.
RoundTripRestoresEquity ==
    [][/\ \A p \in Requests, t \in 1..Len(trades) :
            ( /\ hist.lastOpen[trades[t].user_challenge_id].tid = t
              /\ ~hist.lastOpen[trades[t].user_challenge_id].closed
              /\ SellStart(p, trades[t].user_id, t) )
            => req'[p].pc = "sell_read"
       /\ \A p \in Requests :
            ( /\ req[p].pc \in {"sell_read", "sell_update"}
              /\ hist.lastOpen[req[p].ucid].tid = req[p].tid
              /\ ~hist.lastOpen[req[p].ucid].closed
              /\ req'[p] # req[p] )
            => LET r == req[p]
                   o == hist.lastOpen[r.ucid]
               IN  /\ r.pc = "sell_read" =>
                         \/ req'[p].pc = "sell_update"
                         \/ req'[p].resp = "Could not fetch price"
                   /\ (r.pc = "sell_update" /\ r.price = r.tr.entry_price) =>
                         /\ trades'[r.tid].status = "closed"
                         /\ trades'[r.tid].pnl = 0
                         /\ accounts'[r.ucid].equity = o.equity
                         /\ accounts'[r.ucid].current_balance = o.equity]_vars

\* C13: on an active account with no daily loss, a trade that is opened and closed on
\* the same day with a loss of at least the daily loss limit (profit target not met)
\* has its close accepted, is evaluated as failed for the daily loss limit, and the
\* account is stored as failed with completed_at set.
DailyLossScenarioFails ==
    [][\A p \in Requests :
         ( /\ req[p].pc \in {"sell_read", "sell_eval", "sell_transition"}
           /\ hist.lastOpen[req[p].ucid].tid = req[p].tid
           /\ hist.lastOpen[req[p].ucid].daily_loss = 0
           /\ hist.lastOpen[req[p].ucid].day = today
           /\ req'[p] # req[p] )
         => LET r == req[p]
                o == hist.lastOpen[r.ucid]
                uc == accounts[r.ucid]
                lost == /\ o.closed
                        /\ trades[r.tid].pnl <= - uc.daily_loss_limit
                        /\ uc.equity - uc.initial_balance < uc.profit_target
            IN  /\ \A pr \in MorePrices :
                      ( /\ r.pc = "sell_read"
                        /\ ~o.closed
                        /\ (pr - r.tr.entry_price) * r.tr.quantity <= - uc.daily_loss_limit
                        /\ SellReadChallenge(p, pr) )
                      => req'[p].pc = "sell_update"
                /\ (r.pc = "sell_eval" /\ lost) =>
                      /\ req'[p].pc = "sell_transition"
                      /\ req'[p].evaluation =
                            [status |-> "failed", reason |-> "Daily loss limit exceeded"]
                /\ (r.pc = "sell_transition" /\ lost) =>
                      /\ accounts'[r.ucid].status = "failed"
                      /\ accounts'[r.ucid].completed_at # Null]_vars

\* C14: when an accepted close comes to an equity that meets the profit target, the
\* account is passed when that close returns.
ProfitableCloseIsPassed ==
    [][\A p \in Requests :
         ( /\ req[p].pc \in {"sell_eval", "sell_transition"}
           /\ req'[p].pc = "idle"
           /\ p \in hist.metTarget )
         => accounts'[req[p].ucid].status = "passed"]_vars

\* C15: in a tick the evaluation sweep starts only when the rollover sweep is over;
\* the rollover leaves every account it selected on the tick's day with no daily
\* loss; and no account is evaluated on a row of an earlier day than the tick's.
RolloverBeforeEvaluation ==
    [][/\ (sched'.pc = "select" /\ sched.pc # "select") =>
            \/ sched.pc = "reset"
            \/ /\ sched.pc = "sleep"
               /\ \A a \in AccountIds :
                     accounts[a].status = "active" => accounts[a].current_day >= LocalToday
       /\ (sched'.pc = "transition" /\ sched.pc # "transition") =>
            sched.pc \in {"select", "loop"}
       /\ (sched.pc = "reset" /\ sched' # sched) =>
            \A a \in AccountIds :
                sched.rows[a] # NoAccount =>
                   /\ accounts'[a].current_day = sched.day
                   /\ accounts'[a].daily_loss = 0
       /\ (sched.pc = "select" /\ sched' # sched) =>
            \A a \in AccountIds :
                accounts[a].status = "active" => accounts[a].current_day >= sched.day]_vars

\* C16: a payment for a template that does not exist or is not active creates no
\* account and is answered with the template-not-found error.
InactiveTemplateCreatesNoAccount ==
    [][\A p \in Requests, u \in Users, cid \in TemplateIds :
         ( /\ ProcessPayment(p, u, cid)
           /\ (cid \notin DOMAIN Templates \/ ~Templates[cid].is_active) )
         => /\ accounts' = accounts
            /\ req'[p].resp = "Challenge not found"]_vars

\* C17: a created account is active, its equity, current balance and peak balance
\* are the template's initial balance, its daily loss is 0 and each limit is the
\* initial balance times the template's percentage over 100; afterwards no trade,
\* tick or transition changes the initial balance or a limit.
LimitsSetOnceAtCreation ==
    [][/\ \A p \in Requests, u \in Users, cid \in DOMAIN Templates :
            ProcessPayment(p, u, cid) =>
               \E a \in AccountIds :
                  LET uc == accounts'[a]
                      tpl == Templates[cid]
                  IN  /\ accounts[a] = NoAccount
                      /\ uc.user_id = u
                      /\ uc.status = "active"
                      /\ uc.initial_balance = tpl.initial_balance
                      /\ uc.equity = uc.initial_balance
                      /\ uc.current_balance = uc.initial_balance
                      /\ uc.peak_balance = uc.initial_balance
                      /\ uc.daily_loss = 0
                      /\ 100 * uc.daily_loss_limit =
                            uc.initial_balance * tpl.max_daily_loss_percent
                      /\ 100 * uc.max_drawdown_limit =
                            uc.initial_balance * tpl.max_total_drawdown_percent
                      /\ 100 * uc.profit_target =
                            uc.initial_balance * tpl.profit_target_percent
       /\ \A a \in AccountIds :
            accounts[a] # NoAccount =>
               /\ accounts'[a].initial_balance = accounts[a].initial_balance
               /\ accounts'[a].daily_loss_limit = accounts[a].daily_loss_limit
               /\ accounts'[a].max_drawdown_limit = accounts[a].max_drawdown_limit
               /\ accounts'[a].profit_target = accounts[a].profit_target]_vars

\* An account created from the wide template has traded and reached a terminal
\* status with the limits of its creation.
TradedAccountKeepsLimits ==
    \E a \in AccountIds :
        /\ accounts[a].status \in Terminal
        /\ accounts[a].equity # accounts[a].initial_balance
        /\ accounts[a].initial_balance = 5000
        /\ accounts[a].daily_loss_limit = 250
        /\ accounts[a].max_drawdown_limit = 10000
        /\ accounts[a].profit_target = 500

\* C18: the daily loss is never negative; the day of an account never goes back;
\* a step that moves the account to a later day leaves as daily loss only what
\* that step itself lost; and the daily loss is never put back to 0 on a step that
\* leaves the account on its day.
DailyLossResetOnlyOnRollover ==
    [][\A a \in AccountIds :
         accounts[a] # NoAccount =>
            LET old == accounts[a]
                new == accounts'[a]
            IN  /\ old.daily_loss >= 0
                /\ new.daily_loss >= 0
                /\ new.current_day >= old.current_day
                /\ new.current_day > old.current_day =>
                      new.daily_loss = Max(0, old.equity - new.equity)
                /\ (new.current_day = old.current_day /\ old.daily_loss > 0) =>
                      new.daily_loss > 0]_vars

\* C19: on a step that leaves an account on its day the daily loss does not
\* decrease, and it is unchanged when the equity does not fall.
GainKeepsDailyLoss ==
    [][\A a \in AccountIds :
         (accounts[a] # NoAccount /\ accounts'[a].current_day = accounts[a].current_day) =>
            /\ accounts'[a].daily_loss >= accounts[a].daily_loss
            /\ accounts'[a].equity >= accounts[a].equity =>
                  accounts'[a].daily_loss = accounts[a].daily_loss]_vars

AdminOverrideOnly ==
    [][\A a \in AccountIds :
         /\ \A p \in Requests :
               ( /\ req[p].pc = "admin_update" /\ req'[p].pc = "idle" /\ req[p].ucid = a
                 /\ req[p].uc.status = accounts[a].status )
                  => accounts'[a].status = req[p].status
         /\ (accounts[a].status \in Terminal /\ accounts'[a].status # accounts[a].status)
               => \E p \in Requests :
                     req[p].pc = "admin_update" /\ req'[p].pc = "idle" /\ req[p].ucid = a]_vars

\* C22: when an accepted buy or sell returns, the status of the account is the
\* evaluation of the row the handler's update_equity stored.
EvaluationSeesMutation ==
    [][\A p \in Requests :
         ( /\ req[p].pc \in {"buy_eval", "buy_transition", "sell_eval", "sell_transition"}
           /\ req'[p].pc = "idle" )
         => accounts'[req[p].ucid].status = hist.verdict[p]]_vars

\* C23: no account stays active for ever in a state that meets the profit target
\* or breaches a limit; a transition of the scheduler stores the evaluation of the
\* row it read; and a tick ends with every account it selected evaluated.
SchedulerEventuallyTransitions ==
    /\ \A a \in AccountIds :
          []<>~(accounts[a].status = "active" /\ Evaluate(accounts[a]).status # "active")
    /\ [][/\ (sched.pc = "transition" /\ sched' # sched) =>
                LET a == Head(sched.queue)
                IN  /\ sched.evaluation = Evaluate(sched.rows[a])
                    /\ accounts'[a].status = sched.evaluation.status
          /\ (sched.pc = "commit" /\ sched' # sched) =>
                /\ sched.errors = {}
                /\ sched.selected = sched.evaluated]_vars

\* Two accounts that were both due were moved in one tick, one to passed and one
\* to failed.
BothTransitionedInOneTick ==
    /\ sched.pc = "commit"
    /\ sched.selected = AccountIds
    /\ \E a, b \in AccountIds :
          accounts[a].status = "passed" /\ accounts[b].status = "failed"

\* C24: an update_equity that finds the account on an earlier day leaves it on the
\* day of the update with a daily loss of max(0, -d), d being the change of equity,
\* whatever the daily loss of the earlier day was.
RolloverBeforeLossDelta ==
    [][\A p \in Requests :
         ( /\ req[p].pc \in {"buy_update", "sell_update"}
           /\ req'[p].pc # req[p].pc
           /\ accounts[req[p].ucid].current_day # today )
         => LET old == accounts[req[p].ucid]
                new == accounts'[req[p].ucid]
            IN  /\ new.current_day = today
                /\ new.daily_loss = Max(0, old.equity - new.equity)]_vars

\* A buy found the account on the day before with a daily loss, and left it on
\* the day of the buy with the smaller loss of the buy alone.
NewDayLossStartsAfresh ==
    \E a \in AccountIds :
        LET o == hist.lastOpen[a]
        IN  /\ o.tid # 0 \/ o.by # ""
            /\ ~o.closed
            /\ o.current_day < o.day
            /\ o.daily_loss > 0
            /\ accounts[a].current_day = o.day
            /\ accounts[a].daily_loss > 0
            /\ accounts[a].daily_loss < o.daily_loss
            /\ accounts[a].daily_loss = o.equity - accounts[a].equity

\* C25: the commit of a close stores the trade as closed with the exit price, the
\* time and pnl = (exit price - entry price) * quantity, and the equity the account
\* had plus entry price * quantity plus pnl; a closed trade keeps its pnl, exit
\* price and status.
CloseSetsPnlOnce ==
    [][/\ \A p \in Requests :
            (req[p].pc = "sell_update" /\ req'[p].pc # "sell_update") =>
               LET r == req[p]
                   old == trades[r.tid]
                   new == trades'[r.tid]
               IN  /\ new.status = "closed"
                   /\ new.exit_price = r.price
                   /\ new.closed_at # Null
                   /\ new.pnl = (r.price - old.entry_price) * old.quantity
                   /\ accounts'[r.ucid].equity =
                         accounts[r.ucid].equity + old.entry_price * old.quantity + new.pnl
       /\ \A t \in 1..Len(trades) :
            trades[t].status = "closed" =>
               /\ trades'[t].status = "closed"
               /\ trades'[t].pnl = trades[t].pnl
               /\ trades'[t].exit_price = trades[t].exit_price]_vars

\* C26: in every state the equity of every account equals its current balance.
EquityIsCurrentBalance ==
    \A a \in AccountIds : accounts[a].equity = accounts[a].current_balance

\* An account whose equity is no longer the sum of the changes committed on it:
\* two handlers have written it from rows read before each other's commit.
EquityAfterLostUpdate ==
    \E a \in AccountIds :
        /\ accounts[a] # NoAccount
        /\ accounts[a].equity # accounts[a].initial_balance
        /\ accounts[a].equity # hist.applied[a]

\* The notional of the open trades of account a among the first n trades.
RECURSIVE OpenNotional(_, _)
OpenNotional(n, a) ==
    IF n = 0 THEN 0
    ELSE OpenNotional(n - 1, a)
         + (IF trades[n].user_challenge_id = a /\ trades[n].status = "open"
              THEN trades[n].entry_price * trades[n].quantity ELSE 0)

\* The pnl of the closed trades of account a among the first n trades.
RECURSIVE ClosedPnl(_, _)
ClosedPnl(n, a) ==
    IF n = 0 THEN 0
    ELSE ClosedPnl(n - 1, a)
         + (IF trades[n].user_challenge_id = a /\ trades[n].status = "closed"
              THEN trades[n].pnl ELSE 0)

\* C27: whenever no buy handler is between its two commits, the equity of an
\* account plus the notional of its open trades is its initial balance plus the
\* pnl of its closed trades.
FundsConserved ==
    (\A p \in Requests : req[p].pc # "buy_insert") =>
        \A a \in AccountIds :
            accounts[a].equity + OpenNotional(Len(trades), a)
              = accounts[a].initial_balance + ClosedPnl(Len(trades), a)

\* C28: the current day of an account never moves backwards.
CurrentDayNeverBack ==
    [][\A a \in AccountIds : accounts'[a].current_day >= accounts[a].current_day]_vars

\* C29: the commit of the rollover leaves the daily loss of an account that a
\* trade has already moved to the day of the tick as the trade stored it.
RolloverKeepsTodaysLoss ==
    [][(sched.pc = "reset" /\ sched'.pc # "reset") =>
         \A a \in AccountIds :
             (accounts[a].current_day = sched.day /\ accounts[a].daily_loss > 0)
                => accounts'[a].daily_loss = accounts[a].daily_loss]_vars

\* C30: the commit of an accepted buy leaves the daily loss of the account as it
\* was on that day, and the buy does not end with an account that was active
\* moved out of active.
ReserveIsNoLoss ==
    [][\A p \in Requests :
         LET a == req[p].ucid
         IN  /\ ( /\ req[p].pc = "buy_update" /\ req'[p].pc # "buy_update"
                  /\ accounts[a].current_day = today )
                => accounts'[a].daily_loss = accounts[a].daily_loss
             /\ ( /\ req[p].pc \in {"buy_eval", "buy_transition"} /\ req'[p].pc = "idle"
                  /\ accounts[a].status = "active" )
                => accounts'[a].status = "active"]_vars

\* C31: in every state, an account has a completion time exactly when its status
\* is passed or failed.
CompletedIffTerminal ==
    \A a \in AccountIds :
        accounts[a] # NoAccount =>
            ((accounts[a].completed_at # Null) <=> (accounts[a].status \in Terminal))

\* C32: in every state, each user has at most one account whose status is
\* active.
OneActiveAccountPerUser ==
    \A u \in Users :
        Cardinality({a \in AccountIds :
                       accounts[a].user_id = u /\ accounts[a].status = "active"}) <= 1

\* C33: in every state, at most one thread is inside _run.
OneLoopAtATime == Cardinality(Alive) <= 1

\* C34: while a call of stop() has cleared running and has not returned, no loop
\* goes from its test into a new tick; and once a call of stop() has returned,
\* with no call in progress and running still cleared, the scheduler takes no
\* step of a tick: no rollover and no status transition.
GracefulStop ==
    [][/\ (\E c \in Callers : life.call[c].pc \in {"stop_read", "stop_join"})
            => ~(sched.pc = "sleep" /\ sched'.pc # "sleep")
       /\ ( /\ \E c \in Callers : life.call[c].resp = "stopped"
            /\ \A c \in Callers : life.call[c].pc = "idle"
            /\ ~life.running )
            => sched' = sched]_vars

\* An account whose drawdown limit is a share of its initial balance: its
\* template has 0 < max_total_drawdown_percent <= 100.
LimitWithinBalance(uc) ==
    /\ uc # NoAccount
    /\ 0 < uc.max_drawdown_limit
    /\ uc.max_drawdown_limit <= uc.initial_balance

\* C35: in every state, an account whose drawdown limit is within its initial
\* balance has a peak balance of at least the initial balance, breaches the
\* drawdown limit whenever its equity is zero or less, and is never evaluated
\* with the reason "Account equity depleted", neither on its stored row nor in
\* the evaluation the scheduler or a trade handler holds for it.
DepletedNeverDecides ==
    LET Depleted == "Account equity depleted"
    IN  /\ \A a \in AccountIds :
              LimitWithinBalance(accounts[a]) =>
                  /\ accounts[a].peak_balance >= accounts[a].initial_balance
                  /\ accounts[a].equity <= 0 =>
                        accounts[a].peak_balance - accounts[a].equity
                            >= accounts[a].max_drawdown_limit
                  /\ Evaluate(accounts[a]).reason # Depleted
        /\ (sched.pc = "transition" /\ LimitWithinBalance(sched.rows[Head(sched.queue)]))
              => sched.evaluation.reason # Depleted
        /\ \A p \in Requests :
              (req[p].ucid \in AccountIds /\ LimitWithinBalance(accounts[req[p].ucid]))
                 => req[p].evaluation.reason # Depleted

\* The scheduler is about to fail an account with no equity left, a drawdown limit
\* within its initial balance and a daily loss under the limit: the drawdown has
\* decided.
DepletedFailsOnDrawdown ==
    /\ sched.pc = "transition"
    /\ LET uc == sched.rows[Head(sched.queue)]
       IN  /\ LimitWithinBalance(uc)
           /\ uc.equity <= 0
           /\ uc.daily_loss < uc.daily_loss_limit
    /\ sched.evaluation = [status |-> "failed", reason |-> "Maximum drawdown exceeded"]

====
